---- MODULE Spec2Model ----
(***************************************************************************)
(* SisterSync task tracker: the local task store of App (useState tasks),  *)
(* its debounced persistence to localStorage, the load-time migration, the *)
(* generateId helper and the export/import sync codec.                     *)
(*                                                                         *)
(* JavaScript values are tagged records.  A string is a sequence of        *)
(* symbols; a symbol is one character (every whitespace character, every   *)
(* "-", every digit of a generated id is its own symbol) or an atom that   *)
(* stands for a run of letters ("Anna").  A missing property and a         *)
(* property holding undefined are the same value (Undefined): t.x reads    *)
(* both as undefined and JSON.stringify drops both.                        *)
(***************************************************************************)
EXTENDS Integers, Sequences, FiniteSets, TLC

VARIABLES
    tasks,          \* useState<Task[]>: the in-memory collection
    idCounter,      \* module-level let idCounter
    crypto,         \* the runtime: is crypto.randomUUID there and working
    now,            \* Date.now(), milliseconds
    timers,         \* pending setTimeout callbacks, in creation order
    saveStatus,     \* useState 'saved' | 'saving' | 'error'
    storage,        \* localStorage['sisterSyncTasks']: NoItem or a text
    isProcessingAI, \* useState: a parseSmartInput call is in flight
    filterUser,     \* useState<SisterName | 'All'>: the list's filter
    lastOp,         \* history: the handler that ran last and its outcome
    lastChangeAt,   \* history: when the [tasks] effect last ran
    burstLen,       \* history: changes so far in the current burst
    writesSince,    \* history: setItem attempts since the last change
    lastId,         \* history: what the last generateId call returned
    mark            \* history: one remembered generateId call

vars == <<tasks, idCounter, crypto, now, timers, saveStatus, storage, isProcessingAI,
          filterUser, lastOp, lastChangeAt, burstLen, writesSince, lastId, mark>>

(***************************** bounds **************************************)
MaxTasks == 2       \* adds are disabled once the collection is this long
MaxGen == 2         \* generateId calls per behaviour of Spec
MaxSteps == 6       \* clock advances per behaviour, in half windows
MaxBurst == 3       \* burstLen stops counting here
StartTime == 1000   \* Date.now() when the component mounts
MaxMark == 2        \* the remembered generateId call is among the first MaxMark

(************************ program constants ********************************)
COUNTER_MOD == 10000
DEBOUNCE_MS == 500
SAVED_DELAY_LONG == 2 * DEBOUNCE_MS
SAVED_DELAY_MS == 500

(************************** JavaScript values ******************************)
Undefined == [ty |-> "undefined", b |-> FALSE, n |-> 0, s |-> <<>>]
Null == [ty |-> "null", b |-> FALSE, n |-> 0, s |-> <<>>]
Bool(x) == [ty |-> "bool", b |-> x, n |-> 0, s |-> <<>>]
Num(x) == [ty |-> "num", b |-> FALSE, n |-> x, s |-> <<>>]
Str(x) == [ty |-> "str", b |-> FALSE, n |-> 0, s |-> x]

\* ToBoolean: what `v || d`, `!!v` and `!v` test.
Truthy(v) ==
    CASE v.ty = "bool" -> v.b
      [] v.ty = "num" -> v.n # 0
      [] v.ty = "str" -> v.s # <<>>
      [] v.ty \in {"undefined", "null"} -> FALSE
      [] OTHER -> TRUE

\* a || b
OrElse(a, b) == IF Truthy(a) THEN a ELSE b

WhiteSpace == {" ", "\t", "\n"}

RECURSIVE TrimStart(_)
TrimStart(s) ==
    IF s # <<>> /\ Head(s) \in WhiteSpace THEN TrimStart(Tail(s)) ELSE s

RECURSIVE TrimEnd(_)
TrimEnd(s) ==
    IF s # <<>> /\ s[Len(s)] \in WhiteSpace
    THEN TrimEnd(SubSeq(s, 1, Len(s) - 1)) ELSE s

\* String.prototype.trim
Trim(s) == TrimEnd(TrimStart(s))

Digits36 ==
    <<"0", "1", "2", "3", "4", "5", "6", "7", "8", "9", "a", "b", "c", "d",
      "e", "f", "g", "h", "i", "j", "k", "l", "m", "n", "o", "p", "q", "r",
      "s", "t", "u", "v", "w", "x", "y", "z">>

\* Number.prototype.toString(radix) of a non-negative integer
RECURSIVE ToRadix(_, _)
ToRadix(n, radix) ==
    IF n < radix THEN <<Digits36[n + 1]>>
    ELSE ToRadix(n \div radix, radix) \o <<Digits36[(n % radix) + 1]>>

(***************************** generateId **********************************)
\* Math.random().toString(36).substring(2, 8): zero to six base-36 digits
RandomParts == {<<>>, <<"1">>}

\* how `typeof crypto !== 'undefined' && crypto.randomUUID` and the call go
\* in this runtime: "fallback" when crypto is absent or randomUUID raises
CryptoPaths == {"native", "fallback"}

\* idCounter = (idCounter + 1) % 10000
NextCounter(c) == (c + 1) % COUNTER_MOD

\* `${timestamp}-${randomPart}-${idCounter}`
FallbackIdNoDash(ts, rnd, ctr) == Str(ToRadix(ts, 36) \o rnd \o ToRadix(ctr, 10))
FallbackId(ts, rnd, ctr) ==
    Str(ToRadix(ts, 36) \o <<"-">> \o rnd \o <<"-">> \o ToRadix(ctr, 10))

\* crypto.randomUUID(): five groups joined by "-".  The primitive's contract
\* is that no value is returned twice; the k-th call returns the k-th UUID.
RandomUUID(k) ==
    Str(<<"uuid">> \o <<"-">> \o ToRadix(k, 16) \o <<"-">> \o <<"4">> \o <<"-">>
        \o <<"8">> \o <<"-">> \o <<"0">>)

\* generateId with idCounter = c before the call: the id returned.  The
\* counter is advanced before the path is chosen, on both paths.
GenerateId(c, ts, rnd, path) ==
    IF path = "native" THEN RandomUUID(NextCounter(c))
    ELSE FallbackId(ts, rnd, NextCounter(c))

(****************************** Task objects *******************************)
\* An object with the properties of Task (types.ts); Undefined = absent.
Obj(id, title, description, assignee, priority, isCompleted, createdAt) ==
    [ty |-> "obj", id |-> id, title |-> title, description |-> description,
     assignee |-> assignee, priority |-> priority, isCompleted |-> isCompleted,
     createdAt |-> createdAt]

EmptyObj ==
    Obj(Undefined, Undefined, Undefined, Undefined, Undefined, Undefined, Undefined)

Arr(items) == [ty |-> "arr", items |-> items]

\* t.f: a property read.  On a primitive it yields undefined.
Get(t, f) == IF t.ty = "obj" THEN t[f] ELSE Undefined

\* {...t}: the own enumerable properties; none for null, undefined, numbers
\* and booleans (the index properties a string spreads into are not Task
\* properties and are left out).
Spread(t) == IF t.ty = "obj" THEN t ELSE EmptyObj

\* t.id where t is null or undefined raises TypeError
ReadThrows(t) == t.ty \in {"null", "undefined"}

SISTERS == <<Str(<<"Anna">>), Str(<<"Bella">>), Str(<<"Chloe">>)>>
PriorityLOW == Str(<<"Low">>)
PriorityMEDIUM == Str(<<"Medium">>)
PriorityHIGH == Str(<<"High">>)

(******************************* SyncCodec *********************************)
\* Texts are layered: a JSON text carries the document it denotes, a
\* percent-escaped string the text it escapes, a base-64 string the binary
\* string it encodes.  Each library call is total on its own layer and
\* raises on the strings that are not in its image.
Thrown == [k |-> "thrown"]

\* JSON.stringify drops undefined properties (already absent here) and
\* writes an undefined array element as null.
ToJson(v) ==
    IF v.ty = "arr"
    THEN Arr([i \in 1..Len(v.items) |->
              IF v.items[i].ty = "undefined" THEN Null ELSE v.items[i]])
    ELSE v

JSONStringify(v) == [k |-> "json", doc |-> ToJson(v)]
\* JSON.parse: SyntaxError on a text that is not JSON
JSONParse(text) == IF text.k = "json" THEN text.doc ELSE Thrown

EncodeURIComponent(text) == [k |-> "pct", text |-> text]
\* decodeURIComponent: URIError on a malformed escape; a string without
\* escapes ("plain") decodes to itself
DecodeURIComponent(str) ==
    IF str.k \in {"pct", "plain"} THEN str.text ELSE Thrown

Btoa(str) == [pad |-> FALSE, body |-> [k |-> "b64", bytes |-> str]]
\* atob: ASCII whitespace is ignored; InvalidCharacterError otherwise
Atob(code) == IF code.body.k = "b64" THEN code.body.bytes ELSE Thrown

\* importCode.trim()
TrimCode(code) == [code EXCEPT !.pad = FALSE]
IsBlankCode(code) == code.body.k = "empty"

\* getExportCode: btoa(encodeURIComponent(JSON.stringify(tasks)))
GetExportCode(ts) == Btoa(EncodeURIComponent(JSONStringify(Arr(ts))))

\* decodeURIComponent(atob(importCode.trim())) then JSON.parse: the stage
\* that raised, or the parsed document
DecodeCode(code) ==
    LET bytes == Atob(TrimCode(code))
        text == IF bytes = Thrown THEN Thrown ELSE DecodeURIComponent(bytes)
        doc == IF text = Thrown THEN Thrown ELSE JSONParse(text)
    IN  CASE bytes = Thrown -> [stage |-> "atob", doc |-> Thrown]
          [] text = Thrown -> [stage |-> "uri", doc |-> Thrown]
          [] doc = Thrown -> [stage |-> "json", doc |-> Thrown]
          [] OTHER -> [stage |-> "parsed", doc |-> doc]

(************************* Validator / Migrator ****************************)
\* load's map callback (lines 99-103): {...t, id: t.id || generateId(),
\* createdAt: t.createdAt || Date.now()}
LoadElemRestamps(t, freshId, ts) ==
    [Spread(t) EXCEPT !.id = OrElse(Get(t, "id"), freshId),
                      !.createdAt = Num(ts)]

LoadElem(t, freshId, ts) ==
    [Spread(t) EXCEPT !.id = OrElse(Get(t, "id"), freshId),
                      !.createdAt = OrElse(Get(t, "createdAt"), Num(ts))]

\* handleImport's map callback (lines 262-266): {...t, id: t.id ||
\* generateId(), isCompleted: !!t.isCompleted}
ImportElemResets(t, freshId, ts) ==
    [Spread(t) EXCEPT !.id = OrElse(Get(t, "id"), freshId),
                      !.isCompleted = Bool(FALSE)]

ImportElem(t, freshId, ts) ==
    [Spread(t) EXCEPT !.id = OrElse(Get(t, "id"), freshId),
                      !.isCompleted = Bool(Truthy(Get(t, "isCompleted")))]

MapElem(kind, t, freshId, ts) ==
    IF kind = "load" THEN LoadElem(t, freshId, ts) ELSE ImportElem(t, freshId, ts)

\* Array.prototype.map over the decoded array, with idCounter = c before it.
\* generateId runs only for an element whose id is falsy; rs lists what
\* Math.random gives those calls, in order.  An element that is null
\* makes the callback raise: ok is FALSE and ctr is the counter reached.
RECURSIVE MapElems(_, _, _, _, _, _)
MapElems(kind, items, c, ts, rs, path) ==
    IF items = <<>> THEN [ok |-> TRUE, out |-> <<>>, ctr |-> c]
    ELSE LET t == Head(items) IN
         IF ReadThrows(t) THEN [ok |-> FALSE, out |-> <<>>, ctr |-> c]
         ELSE LET calls == ~Truthy(Get(t, "id"))
                  fresh == IF calls THEN GenerateId(c, ts, Head(rs), path)
                           ELSE Undefined
                  e == MapElem(kind, t, fresh, ts)
                  rest == MapElems(kind, Tail(items),
                                   IF calls THEN NextCounter(c) ELSE c, ts,
                                   IF calls THEN Tail(rs) ELSE rs, path)
              IN  [ok |-> rest.ok, out |-> <<e>> \o rest.out, ctr |-> rest.ctr]

\* how many generateId calls a payload's map makes
RECURSIVE CallsFor(_)
CallsFor(items) ==
    IF items = <<>> \/ ReadThrows(Head(items)) THEN 0
    ELSE (IF Truthy(Get(Head(items), "id")) THEN 0 ELSE 1) + CallsFor(Tail(items))

NoItem == [k |-> "none"]

\* the useState initializer (lines 90-108): the collection and the counter
\* after load.  Every failure yields [].
LoadTasks(saved, c, ts, rs, path) ==
    IF saved = NoItem THEN [out |-> <<>>, ctr |-> c]
    ELSE LET parsed == JSONParse(saved) IN
         IF parsed = Thrown \/ parsed.ty # "arr" THEN [out |-> <<>>, ctr |-> c]
         ELSE LET m == MapElems("load", parsed.items, c, ts, rs, path) IN
              [out |-> IF m.ok THEN m.out ELSE <<>>, ctr |-> m.ctr]

(***************************** sample inputs *******************************)
Anna == SISTERS[1]
Bella == SISTERS[2]
Chloe == SISTERS[3]

TaskA == Obj(Str(<<"a">>), Str(<<"Wash">>), Undefined, Anna, PriorityMEDIUM,
             Bool(FALSE), Num(900))
TaskB == Obj(Str(<<"b">>), Str(<<"Cook">>), Str(<<"soup">>), Bella, PriorityHIGH,
             Bool(TRUE), Num(950))
\* a second record carrying TaskA's id
TaskA2 == [TaskB EXCEPT !.id = TaskA.id]
\* Scenario C: no id, no isCompleted, no createdAt
NoIdRec == Obj(Undefined, Str(<<"X">>), Undefined, Chloe, PriorityHIGH,
               Undefined, Undefined)
\* a record of an earlier schema: isCompleted stored as 1
LegacyRec == [TaskA EXCEPT !.isCompleted = Num(1)]

\* what the form of the manual tab can hold
Titles == {<<>>, <<" ", "\t">>, <<" ", "Buy", " ", "milk", " ">>}
\* assignee and priority picked together: <<assignee, priority>>
ManualPicks == {<<Anna, PriorityMEDIUM>>, <<Bella, PriorityHIGH>>}

\* an id no task carries
AbsentId == Str(<<"zz">>)
ArgIds == {tasks[i].id : i \in 1..Len(tasks)} \cup {AbsentId}

\* entries of a SmartTaskResponse: title, assignee, priority, description?
Entry1 == Obj(Undefined, Str(<<"Call">>), Undefined, Anna, PriorityLOW,
              Undefined, Undefined)
Entry2 == Obj(Undefined, Str(<<"Pay">>), Str(<<"rent">>), Chloe, PriorityHIGH,
              Undefined, Undefined)

\* what parseSmartInput resolves to: null, {} without tasks, {tasks: [...]};
\* "rejects" is a rejected promise
ParseOutcomes ==
    {[k |-> "null", tasks |-> <<>>], [k |-> "rejects", tasks |-> <<>>],
     [k |-> "noTasks", tasks |-> <<>>], [k |-> "result", tasks |-> <<>>],
     [k |-> "result", tasks |-> <<Entry1>>],
     [k |-> "result", tasks |-> <<Entry1, Entry2>>]}

\* collections another store can hold and export
PeerCollections == {<<>>, <<TaskA>>, <<TaskB, TaskA>>}

GarbageText == [k |-> "garbage"]
Code(body) == [pad |-> FALSE, body |-> body]
Padded(code) == [code EXCEPT !.pad = TRUE]
CodeOfDoc(doc) == Btoa(EncodeURIComponent(JSONStringify(doc)))

\* documents a pasted code can decode to
ForeignDocs ==
    {Arr(<<NoIdRec>>), Arr(<<TaskA, TaskA2>>), Arr(<<TaskA, Null>>),
     Arr(<<Num(5), LegacyRec>>), TaskA, Num(5)}

\* what the import box can hold
ImportCodes ==
    {Code([k |-> "empty"]), Padded(Code([k |-> "empty"])),
     Code([k |-> "junk"]),
     Code([k |-> "b64", bytes |-> [k |-> "malformed"]]),
     Code([k |-> "b64", bytes |-> [k |-> "plain", text |-> GarbageText]]),
     Padded(CodeOfDoc(Arr(<<TaskB>>)))}
    \cup {CodeOfDoc(d) : d \in ForeignDocs}
    \cup {GetExportCode(c) : c \in PeerCollections}

\* what localStorage can hold when the component mounts
InitialStorage ==
    {NoItem, GarbageText, JSONStringify(TaskA), JSONStringify(Arr(<<TaskA, TaskB>>)),
     JSONStringify(Arr(<<NoIdRec, LegacyRec>>)), JSONStringify(Arr(<<TaskA, Null>>)),
     JSONStringify(Arr(<<TaskA, TaskA2>>))}

\* what a peer's code brings in while a parse call is awaited
AsyncCodes == {Code([k |-> "junk"]), GetExportCode(<<TaskB>>)}

\* stored items and pasted codes whose records miss fields, are not
\* objects, or are not records at all
EntryStorage ==
    {NoItem, GarbageText, JSONStringify(TaskA),
     JSONStringify(Arr(<<NoIdRec, LegacyRec>>)), JSONStringify(Arr(<<TaskA, Null>>))}
EntryCodes ==
    {Code([k |-> "junk"]), CodeOfDoc(TaskA), CodeOfDoc(Arr(<<NoIdRec>>)),
     CodeOfDoc(Arr(<<TaskA, Null>>)), CodeOfDoc(Arr(<<Num(5), LegacyRec>>))}

\* what Math.random gives n successive generateId calls
RandomSeqs(n) == [1..n -> RandomParts]

(******************************** filter ***********************************)
FilterAll == Str(<<"All">>)
\* the filter buttons (lines 369, 377): 'All' and one per sister
FilterChoices == {FilterAll} \cup {SISTERS[i] : i \in 1..Len(SISTERS)}

\* filteredTasks (lines 284-287): tasks.filter(t => !(filterUser !== 'All'
\* && t.assignee !== filterUser))
RECURSIVE FilteredTasksNoAll(_, _)
FilteredTasksNoAll(ts, f) ==
    IF ts = <<>> THEN <<>>
    ELSE IF Head(ts).assignee # f
         THEN FilteredTasksNoAll(Tail(ts), f)
         ELSE <<Head(ts)>> \o FilteredTasksNoAll(Tail(ts), f)

RECURSIVE FilteredTasks(_, _)
FilteredTasks(ts, f) ==
    IF ts = <<>> THEN <<>>
    ELSE IF f # FilterAll /\ Head(ts).assignee # f
         THEN FilteredTasks(Tail(ts), f)
         ELSE <<Head(ts)>> \o FilteredTasks(Tail(ts), f)

(******************************* timers ************************************)
SaveTimer(due, snap) == [kind |-> "save", due |-> due, snap |-> snap]
SavedTimer(due) == [kind |-> "saved", due |-> due, snap |-> <<>>]

RemoveAt(q, i) == SubSeq(q, 1, i - 1) \o SubSeq(q, i + 1, Len(q))

\* the effect's cleanup, clearTimeout(timeoutId): the save timer the
\* previous run of the effect made is dropped if it is still pending
ClearTimeoutForgotten(q) == q
ClearTimeout(q) ==
    LET S == {i \in 1..Len(q) : q[i].kind = "save"} IN
    IF S = {} THEN q
    ELSE RemoveAt(q, CHOOSE i \in S : \A j \in S : j <= i)

\* useEffect(..., [tasks]) after a render with a new tasks array: cleanup,
\* then setTimeout(saveTasks, 500) closing over the new array
RunEffectStale(q, newTasks, t) ==
    Append(ClearTimeout(q), SaveTimer(t + DEBOUNCE_MS, tasks))

RunEffect(q, newTasks, t) ==
    Append(ClearTimeout(q), SaveTimer(t + DEBOUNCE_MS, newTasks))

\* the timer the event loop runs next: the earliest due one, and among
\* timers due together the one created first
NextDue(q) ==
    CHOOSE i \in 1..Len(q) :
        \A j \in 1..Len(q) : q[i].due < q[j].due \/ (q[i].due = q[j].due /\ i <= j)

Min(a, b) == IF a <= b THEN a ELSE b

(******************************** state ************************************)
\* the handler that ran, how it ended, and how long the collection was
\* before.  src: the collection is as the load, or as an import, left it,
\* no handler of the store having run since.  fl: another handler ran while
\* the parseSmartInput call now in flight, or just completed, was awaited
Op(op, res) ==
    [op |-> op, res |-> res, was |-> Len(tasks),
     src |-> CASE op = "import" /\ res = "ok" -> "import"
               [] op \in {"saveTasks", "showSaved", "advance"} -> lastOp.src
               [] OTHER -> "edit",
     fl |-> CASE ~isProcessingAI -> 0
              [] op = "smartAdd" -> lastOp.fl
              [] OTHER -> 1]
MountOp == [op |-> "mount", res |-> "loaded", was |-> 0, src |-> "load", fl |-> 0]
NoMark == [set |-> FALSE, id |-> Undefined, since |-> 0]

NotChanged == UNCHANGED <<tasks, timers, lastChangeAt, burstLen, writesSince>>

\* a render with a new tasks array: the state and the effect it triggers
ChangedOnlyIfDifferent(newTasks) ==
    IF newTasks = tasks THEN NotChanged
    ELSE /\ tasks' = newTasks
         /\ timers' = RunEffect(timers, newTasks, now)
         /\ lastChangeAt' = now
         /\ burstLen' = IF now - lastChangeAt < DEBOUNCE_MS
                        THEN Min(burstLen + 1, MaxBurst) ELSE 1
         /\ writesSince' = 0

Changed(newTasks) ==
    /\ tasks' = newTasks
    /\ timers' = RunEffect(timers, newTasks, now)
    /\ lastChangeAt' = now
    /\ burstLen' = IF now - lastChangeAt < DEBOUNCE_MS
                   THEN Min(burstLen + 1, MaxBurst) ELSE 1
    /\ writesSince' = 0

\* mount: the useState initializers run, then the [tasks] effect
Mount(stored, runtimes) ==
    /\ now = StartTime
    /\ storage \in stored
    /\ crypto \in runtimes
    /\ \E rs \in RandomSeqs(IF storage = NoItem \/ JSONParse(storage) = Thrown
                                \/ JSONParse(storage).ty # "arr" THEN 0
                             ELSE CallsFor(JSONParse(storage).items)) :
          LET l == LoadTasks(storage, 0, now, rs, crypto) IN
          /\ tasks = l.out
          /\ idCounter = l.ctr
          /\ timers = RunEffect(<<>>, l.out, now)
    /\ saveStatus = "saved"
    /\ isProcessingAI = FALSE
    /\ filterUser = FilterAll
    /\ lastOp = MountOp
    /\ lastChangeAt = now
    /\ burstLen = 1
    /\ writesSince = 0
    /\ lastId = Undefined
    /\ mark = NoMark

Init == Mount(InitialStorage, CryptoPaths)
\* a first start: nothing stored yet
InitFresh == Mount({NoItem}, CryptoPaths)
\* a start over items that are unreadable, not a list, or hold odd records
InitEntry == Mount(EntryStorage, CryptoPaths)
\* a start over nothing and over a stored list
InitAsync == Mount({NoItem, JSONStringify(Arr(<<TaskA, TaskB>>))}, CryptoPaths)
\* a start over nothing, over an unreadable item and over a stored list
InitPersist ==
    Mount({NoItem, GarbageText, JSONStringify(Arr(<<TaskA, TaskB>>))}, {"native"})

(******************************* handlers **********************************)
\* what every handler and timer callback leaves alone: the runtime, the
\* history of generateId calls and the filter of the list
IdGenIdle == UNCHANGED <<crypto, lastId, mark, filterUser>>

\* handleManualAdd's newTask (lines 205-212)
NewTask(id, title, assignee, priority, ts) ==
    Obj(id, Str(Trim(title)), Undefined, assignee, priority, Bool(FALSE), Num(ts))

\* setTasks(prev => [newTask, ...prev])
PrependAfter(newTasks, prev) == prev \o newTasks
Prepend(newTasks, prev) == newTasks \o prev

\* handleManualAdd (lines 202-219); the form fields are its inputs
HandleManualAdd(title, assignee, priority, rnd) ==
    /\ IF Trim(title) = <<>>
       THEN /\ NotChanged
            /\ UNCHANGED idCounter
            /\ lastOp' = Op("manualAdd", "blank")
       ELSE /\ Len(tasks) < MaxTasks
            /\ idCounter < MaxGen
            /\ Changed(Prepend(<<NewTask(GenerateId(idCounter, now, rnd, crypto),
                                         title, assignee, priority, now)>>, tasks))
            /\ idCounter' = NextCounter(idCounter)
            /\ lastOp' = Op("manualAdd", "added")
    /\ UNCHANGED <<now, saveStatus, storage, isProcessingAI>>
    /\ IdGenIdle

\* toggleTask's updater (lines 222-224)
ToggleMapDropsDescription(prev, taskId) ==
    [i \in 1..Len(prev) |->
        IF prev[i].id = taskId
        THEN [prev[i] EXCEPT !.isCompleted = Bool(~Truthy(prev[i].isCompleted)),
                             !.description = Undefined]
        ELSE prev[i]]

ToggleMap(prev, taskId) ==
    [i \in 1..Len(prev) |->
        IF prev[i].id = taskId
        THEN [prev[i] EXCEPT !.isCompleted = Bool(~Truthy(prev[i].isCompleted))]
        ELSE prev[i]]

HasId(prev, taskId) == \E i \in 1..Len(prev) : prev[i].id = taskId

\* toggleTask (lines 221-225)
ToggleTask(taskId) ==
    /\ Changed(ToggleMap(tasks, taskId))
    /\ lastOp' = Op("toggle", IF HasId(tasks, taskId) THEN "hit" ELSE "miss")
    /\ UNCHANGED <<idCounter, now, saveStatus, storage, isProcessingAI>>
    /\ IdGenIdle

\* deleteTask's updater (line 228)
RECURSIVE DeleteFilterKeepsMatch(_, _)
DeleteFilterKeepsMatch(prev, taskId) ==
    IF prev = <<>> THEN <<>>
    ELSE IF Head(prev).id = taskId
         THEN <<Head(prev)>> \o DeleteFilterKeepsMatch(Tail(prev), taskId)
         ELSE DeleteFilterKeepsMatch(Tail(prev), taskId)

RECURSIVE DeleteFilter(_, _)
DeleteFilter(prev, taskId) ==
    IF prev = <<>> THEN <<>>
    ELSE IF Head(prev).id # taskId
         THEN <<Head(prev)>> \o DeleteFilter(Tail(prev), taskId)
         ELSE DeleteFilter(Tail(prev), taskId)

\* deleteTask (lines 227-229)
DeleteTask(taskId) ==
    /\ Changed(DeleteFilter(tasks, taskId))
    /\ lastOp' = Op("delete", IF HasId(tasks, taskId) THEN "hit" ELSE "miss")
    /\ UNCHANGED <<idCounter, now, saveStatus, storage, isProcessingAI>>
    /\ IdGenIdle

\* handleSmartAdd's newTasks (lines 179-187), with idCounter = c before it
RECURSIVE SmartTasksOneId(_, _, _, _, _)
SmartTasksOneId(entries, c, ts, rs, path) ==
    IF entries = <<>> THEN <<>>
    ELSE LET t == Head(entries) IN
         <<Obj(GenerateId(c, ts, <<>>, "fallback"), t.title, t.description,
               t.assignee, t.priority, Bool(FALSE), Num(ts))>>
         \o SmartTasksOneId(Tail(entries), c, ts, Tail(rs), path)

RECURSIVE SmartTasks(_, _, _, _, _)
SmartTasks(entries, c, ts, rs, path) ==
    IF entries = <<>> THEN <<>>
    ELSE LET t == Head(entries) IN
         <<Obj(GenerateId(c, ts, Head(rs), path), t.title, t.description,
               t.assignee, t.priority, Bool(FALSE), Num(ts))>>
         \o SmartTasks(Tail(entries), NextCounter(c), ts, Tail(rs), path)

RECURSIVE CounterAfter(_, _)
CounterAfter(c, n) == IF n = 0 THEN c ELSE CounterAfter(NextCounter(c), n - 1)

\* handleSmartAdd up to its await (lines 171-176); the button is disabled
\* while a call is in flight (line 600)
SmartAddStart(input) ==
    /\ ~isProcessingAI
    /\ IF Trim(input) = <<>>
       THEN /\ UNCHANGED isProcessingAI
            /\ lastOp' = Op("smartAdd", "blank")
       ELSE /\ isProcessingAI' = TRUE
            /\ lastOp' = Op("smartAdd", "awaiting")
    /\ NotChanged
    /\ UNCHANGED <<idCounter, now, saveStatus, storage>>
    /\ IdGenIdle

\* handleSmartAdd after its await (lines 178-199)
SmartAddDoneDropsPrev(outcome) ==
    /\ isProcessingAI
    /\ isProcessingAI' = FALSE
    /\ IF outcome.k = "result" /\ Len(outcome.tasks) > 0
       THEN /\ Len(tasks) < MaxTasks
            /\ idCounter + Len(outcome.tasks) <= MaxGen
            /\ \E rs \in RandomSeqs(Len(outcome.tasks)) :
                  Changed(SmartTasks(outcome.tasks, idCounter, now, rs, crypto))
            /\ idCounter' = CounterAfter(idCounter, Len(outcome.tasks))
            /\ lastOp' = Op("smartAdd", "added")
       ELSE /\ NotChanged
            /\ UNCHANGED idCounter
            /\ lastOp' = Op("smartAdd", IF outcome.k = "rejects" THEN "failed"
                                        ELSE "notUnderstood")
    /\ UNCHANGED <<now, saveStatus, storage>>
    /\ IdGenIdle

SmartAddDone(outcome) ==
    /\ isProcessingAI
    /\ isProcessingAI' = FALSE
    /\ IF outcome.k = "result" /\ Len(outcome.tasks) > 0
       THEN /\ Len(tasks) < MaxTasks
            /\ idCounter + Len(outcome.tasks) <= MaxGen
            /\ \E rs \in RandomSeqs(Len(outcome.tasks)) :
                  Changed(Prepend(SmartTasks(outcome.tasks, idCounter, now, rs, crypto),
                                  tasks))
            /\ idCounter' = CounterAfter(idCounter, Len(outcome.tasks))
            /\ lastOp' = Op("smartAdd", "added")
       ELSE /\ NotChanged
            /\ UNCHANGED idCounter
            /\ lastOp' = Op("smartAdd", IF outcome.k = "rejects" THEN "failed"
                                        ELSE "notUnderstood")
    /\ UNCHANGED <<now, saveStatus, storage>>
    /\ IdGenIdle

\* handleImport's try block (lines 257-277) with idCounter = c before it:
\* how it ended, the array handed to setTasks and the counter reached
ImportResultClearsFirst(code, c, ts, rs, path) ==
    LET d == DecodeCode(code) IN
    IF d.stage # "parsed" \/ d.doc.ty # "arr" THEN [res |-> "ok", out |-> <<>>, ctr |-> c]
    ELSE LET m == MapElems("import", d.doc.items, c, ts, rs, path) IN
         [res |-> "ok", out |-> m.out, ctr |-> m.ctr]

ImportResult(code, c, ts, rs, path) ==
    LET d == DecodeCode(code) IN
    IF d.stage # "parsed" THEN [res |-> d.stage, out |-> <<>>, ctr |-> c]
    ELSE IF d.doc.ty # "arr" THEN [res |-> "notList", out |-> <<>>, ctr |-> c]
    ELSE LET m == MapElems("import", d.doc.items, c, ts, rs, path) IN
         [res |-> IF m.ok THEN "ok" ELSE "typeError", out |-> m.out, ctr |-> m.ctr]

\* the generateId calls handleImport makes for a code
ImportCalls(code) ==
    LET d == DecodeCode(code) IN
    IF d.stage = "parsed" /\ d.doc.ty = "arr" THEN CallsFor(d.doc.items) ELSE 0

\* handleImport (lines 254-281)
HandleImport(code) ==
    /\ IF IsBlankCode(TrimCode(code))
       THEN /\ NotChanged
            /\ UNCHANGED idCounter
            /\ lastOp' = Op("import", "blank")
       ELSE /\ idCounter + ImportCalls(code) <= MaxGen
            /\ \E rs \in RandomSeqs(ImportCalls(code)) :
                  LET r == ImportResult(code, idCounter, now, rs, crypto) IN
                  /\ IF r.res = "ok" THEN Changed(r.out) ELSE NotChanged
                  /\ idCounter' = r.ctr
                  /\ lastOp' = Op("import", r.res)
    /\ UNCHANGED <<now, saveStatus, storage, isProcessingAI>>
    /\ IdGenIdle

(*************************** timer callbacks *******************************)
\* saveTasks (lines 136-147) run by the debounce timer; raises tells whether
\* localStorage.setItem raises
SaveTasksRetries(raises) ==
    /\ timers # <<>>
    /\ LET i == NextDue(timers) IN
       /\ timers[i].kind = "save"
       /\ timers[i].due <= now
       /\ IF raises
          THEN /\ saveStatus' = "error"
               /\ timers' = Append(RemoveAt(timers, i),
                                   SaveTimer(now + DEBOUNCE_MS, timers[i].snap))
               /\ UNCHANGED storage
               /\ lastOp' = Op("saveTasks", "raised")
          ELSE /\ saveStatus' = "saving"
               /\ storage' = JSONStringify(Arr(timers[i].snap))
               /\ timers' = Append(RemoveAt(timers, i),
                                   SavedTimer(now + SAVED_DELAY_MS))
               /\ lastOp' = Op("saveTasks", "written")
    /\ writesSince' = writesSince + 1
    /\ UNCHANGED <<tasks, idCounter, now, isProcessingAI, lastChangeAt, burstLen>>
    /\ IdGenIdle

SaveTasks(raises) ==
    /\ timers # <<>>
    /\ LET i == NextDue(timers) IN
       /\ timers[i].kind = "save"
       /\ timers[i].due <= now
       /\ IF raises
          THEN /\ saveStatus' = "error"
               /\ timers' = RemoveAt(timers, i)
               /\ UNCHANGED storage
               /\ lastOp' = Op("saveTasks", "raised")
          ELSE /\ saveStatus' = "saving"
               /\ storage' = JSONStringify(Arr(timers[i].snap))
               /\ timers' = Append(RemoveAt(timers, i),
                                   SavedTimer(now + SAVED_DELAY_MS))
               /\ lastOp' = Op("saveTasks", "written")
    /\ writesSince' = writesSince + 1
    /\ UNCHANGED <<tasks, idCounter, now, isProcessingAI, lastChangeAt, burstLen>>
    /\ IdGenIdle

\* () => setSaveStatus('saved') (line 141)
ShowSaved ==
    /\ timers # <<>>
    /\ LET i == NextDue(timers) IN
       /\ timers[i].kind = "saved"
       /\ timers[i].due <= now
       /\ timers' = RemoveAt(timers, i)
    /\ saveStatus' = "saved"
    /\ lastOp' = Op("showSaved", "shown")
    /\ UNCHANGED <<tasks, idCounter, now, storage, isProcessingAI, lastChangeAt,
                   burstLen, writesSince>>
    /\ IdGenIdle

\* time passes: half a window, or less when a timer falls due sooner; a due
\* timer runs before the clock moves on
Advance ==
    /\ now < StartTime + MaxSteps * (DEBOUNCE_MS \div 2)
    /\ \A i \in 1..Len(timers) : timers[i].due > now
    /\ now' = IF timers = <<>> THEN now + DEBOUNCE_MS \div 2
              ELSE Min(now + DEBOUNCE_MS \div 2, timers[NextDue(timers)].due)
    /\ lastOp' = Op("advance", "tick")
    /\ UNCHANGED <<tasks, idCounter, timers, saveStatus, storage, isProcessingAI,
                   lastChangeAt, burstLen, writesSince>>
    /\ IdGenIdle

\* a filter button's onClick: setFilterUser(f).  tasks keeps its identity,
\* so the [tasks] effect does not run
SetFilterUser(f) ==
    /\ filterUser' = f
    /\ lastOp' = Op("setFilter", "set")
    /\ NotChanged
    /\ UNCHANGED <<idCounter, crypto, now, saveStatus, storage, isProcessingAI,
                   lastId, mark>>

\* the page is loaded again: the module is evaluated anew (idCounter = 0),
\* pending timers are gone, every useState initializer runs over what
\* localStorage holds now, then the [tasks] effect
Reload ==
    /\ \E rs \in RandomSeqs(IF storage = NoItem \/ JSONParse(storage) = Thrown
                                \/ JSONParse(storage).ty # "arr" THEN 0
                             ELSE CallsFor(JSONParse(storage).items)) :
          LET l == LoadTasks(storage, 0, now, rs, crypto) IN
          /\ tasks' = l.out
          /\ idCounter' = l.ctr
          /\ timers' = RunEffect(<<>>, l.out, now)
    /\ saveStatus' = "saved"
    /\ isProcessingAI' = FALSE
    /\ filterUser' = FilterAll
    /\ lastOp' = MountOp
    /\ lastChangeAt' = now
    /\ burstLen' = 1
    /\ writesSince' = 0
    /\ UNCHANGED <<crypto, now, storage, lastId, mark>>

\* the store's handlers; the clock stands still
StoreNext ==
    \/ \E title \in Titles, pick \in ManualPicks, rnd \in RandomParts :
          HandleManualAdd(title, pick[1], pick[2], rnd)
    \/ \E taskId \in ArgIds : ToggleTask(taskId)
    \/ \E taskId \in ArgIds : DeleteTask(taskId)
    \/ \E input \in Titles : SmartAddStart(input)
    \/ \E outcome \in ParseOutcomes : SmartAddDone(outcome)

\* import and export, among changes made by hand
SyncNext ==
    \/ \E code \in ImportCodes \cup {GetExportCode(tasks)} : HandleImport(code)
    \/ \E title \in Titles, rnd \in RandomParts :
          HandleManualAdd(title, Chloe, PriorityLOW, rnd)
    \/ \E taskId \in ArgIds : ToggleTask(taskId)
    \/ \E taskId \in ArgIds : DeleteTask(taskId)

\* the clock and the timer callbacks
ClockNext ==
    \/ \E raises \in BOOLEAN : SaveTasks(raises)
    \/ ShowSaved
    \/ Advance

\* the persistence scheduler under changes to the loaded collection
PersistNext ==
    \/ \E taskId \in ArgIds : ToggleTask(taskId)
    \/ \E taskId \in ArgIds : DeleteTask(taskId)
    \/ \E raises \in BOOLEAN : SaveTasks(raises)
    \/ ShowSaved
    \/ Advance

\* one generateId() call (lines 24-38) with the clock frozen
GenerateIdCall(rnd) ==
    /\ mark.set \/ idCounter < MaxMark
    /\ mark.set => mark.since < COUNTER_MOD
    /\ idCounter' = NextCounter(idCounter)
    /\ lastId' = GenerateId(idCounter, now, rnd, crypto)
    /\ mark' = IF mark.set THEN [mark EXCEPT !.since = @ + 1] ELSE mark
    /\ lastOp' = Op("generateId", "returned")
    /\ UNCHANGED <<tasks, crypto, now, timers, saveStatus, storage, isProcessingAI,
                   filterUser, lastChangeAt, burstLen, writesSince>>

\* history only: remember the id the last call returned
MarkCall ==
    /\ ~mark.set
    /\ lastId # Undefined
    /\ mark' = [set |-> TRUE, id |-> lastId, since |-> 0]
    /\ lastOp' = Op("generateId", "marked")
    /\ UNCHANGED <<tasks, idCounter, crypto, now, timers, saveStatus, storage,
                   isProcessingAI, filterUser, lastChangeAt, burstLen, writesSince,
                   lastId>>

IdGenNext ==
    \/ \E rnd \in RandomParts : GenerateIdCall(rnd)
    \/ MarkCall

\* the list view: the filter buttons over a collection that imports,
\* toggles and deletes change
ViewNext ==
    \/ \E f \in FilterChoices : SetFilterUser(f)
    \/ \E code \in ImportCodes : HandleImport(code)
    \/ \E taskId \in ArgIds : ToggleTask(taskId)
    \/ \E taskId \in ArgIds : DeleteTask(taskId)

\* the two ways a collection enters the store, the load of what was
\* written before and the import of a code, each taken once the write of
\* the previous one has gone out
EntryNext ==
    \/ /\ writesSince = 1
       /\ \E code \in EntryCodes \cup {GetExportCode(tasks)} : HandleImport(code)
    \/ (writesSince = 1 /\ Reload)
    \/ SaveTasks(FALSE)
    \/ ShowSaved
    \/ Advance

\* a parse call in flight among the other handlers of the store
AsyncNext ==
    \/ \E input \in Titles : SmartAddStart(input)
    \/ \E outcome \in ParseOutcomes : SmartAddDone(outcome)
    \/ \E title \in Titles, rnd \in RandomParts :
          HandleManualAdd(title, Chloe, PriorityLOW, rnd)
    \/ \E taskId \in ArgIds : ToggleTask(taskId)
    \/ \E taskId \in ArgIds : DeleteTask(taskId)
    \/ \E code \in AsyncCodes : HandleImport(code)

Next == StoreNext \/ SyncNext \/ ClockNext \/ ViewNext \/ Reload

Spec == Init /\ [][Next]_vars
SpecStore == Init /\ [][StoreNext]_vars
SpecSync == InitFresh /\ [][SyncNext]_vars
SpecPersist == InitPersist /\ [][PersistNext]_vars
SpecIdGen == InitFresh /\ [][IdGenNext]_vars
SpecView == InitFresh /\ [][ViewNext]_vars
SpecEntry == InitEntry /\ [][EntryNext]_vars
SpecAsync == InitAsync /\ [][AsyncNext]_vars

(***************************************************************************)
(* C6: with the clock frozen, two generateId() calls fewer than 10000      *)
(* calls apart never return the same id, whatever Math.random returns and  *)
(* whether or not crypto.randomUUID is there: any 10000 consecutive calls  *)
(* yield pairwise distinct ids.                                            *)
(***************************************************************************)
C6_DistinctWithinCycle ==
    (mark.set /\ mark.since >= 1 /\ mark.since < COUNTER_MOD) => lastId # mark.id

\* the 10000th call of a run of consecutive calls on the fallback path
C6_Witness ==
    /\ mark.set /\ mark.since = COUNTER_MOD - 1
    /\ crypto = "fallback" /\ lastId # mark.id

\* one call later the counter has wrapped and the same id can come back
C6_WrapCollides ==
    /\ mark.set /\ mark.since = COUNTER_MOD
    /\ crypto = "fallback" /\ lastId = mark.id

(***************************************************************************)
(* Store operations, under SpecStore.                                      *)
(***************************************************************************)
IdsOf(ts) == {ts[i].id : i \in 1..Len(ts)}
OtherFields == {"ty", "id", "title", "description", "assignee", "priority", "createdAt"}

\* toggle's effect on one collection, stated by position
TogglePost(before, after, taskId) ==
    /\ Len(after) = Len(before)
    /\ \A i \in 1..Len(before) :
          IF before[i].id = taskId
          THEN /\ after[i].isCompleted = Bool(~Truthy(before[i].isCompleted))
               /\ \A f \in OtherFields : after[i][f] = before[i][f]
          ELSE after[i] = before[i]
    /\ (taskId \notin IdsOf(before)) => after = before

\* C7, first part: toggle(id) flips isCompleted on the matching task and
\* changes no other field, no other task, nor the order or the length; with
\* no matching task the collection is unchanged.
C7_ToggleFrame ==
    [][\A taskId \in ArgIds : ToggleTask(taskId) => TogglePost(tasks, tasks', taskId)]_vars

\* C7: toggle(id) flips isCompleted on the task whose id matches and changes
\* nothing else, and toggling the same id again restores the original
\* collection.
C7_ToggleTwiceRestores ==
    [][\A taskId \in ArgIds :
          ToggleTask(taskId) =>
            /\ TogglePost(tasks, tasks', taskId)
            /\ ToggleMap(tasks', taskId) = tasks]_vars

\* C8: addManual with a title that is blank after trimming changes nothing
\* and schedules no write; otherwise it prepends exactly one task: fresh id,
\* trimmed title, the given assignee and priority, isCompleted false,
\* createdAt the current time, the existing tasks following in order.
C8_AddManual ==
    [][\A title \in Titles, pick \in ManualPicks, rnd \in RandomParts :
          HandleManualAdd(title, pick[1], pick[2], rnd) =>
            IF \A k \in 1..Len(title) : title[k] \in WhiteSpace
            THEN tasks' = tasks /\ timers' = timers
            ELSE /\ Len(tasks') = Len(tasks) + 1
                 /\ Tail(tasks') = tasks
                 /\ Truthy(Head(tasks').id)
                 /\ Head(tasks').id \notin IdsOf(tasks)
                 /\ Head(tasks').title.ty = "str"
                 /\ Head(tasks').title.s # <<>>
                 /\ Head(Head(tasks').title.s) \notin WhiteSpace
                 /\ Head(tasks').title.s[Len(Head(tasks').title.s)] \notin WhiteSpace
                 /\ \E i, j \in 0..Len(title) :
                       /\ Head(tasks').title.s = SubSeq(title, i + 1, j)
                       /\ \A k \in 1..Len(title) :
                             (k <= i \/ k > j) => title[k] \in WhiteSpace
                 /\ Head(tasks').assignee = pick[1]
                 /\ Head(tasks').priority = pick[2]
                 /\ Head(tasks').isCompleted = Bool(FALSE)
                 /\ Head(tasks').createdAt = Num(now)
                 /\ Head(tasks').description = Undefined]_vars

\* a task was added in front of an existing one, its title trimmed
C8_Witness ==
    /\ lastOp.op = "manualAdd" /\ lastOp.res = "added" /\ lastOp.was >= 1
    /\ tasks[1].title = Str(<<"Buy", " ", "milk">>)
    /\ tasks[1].createdAt = Num(now)

\* C9: a parsed batch of n entries becomes n new tasks in the order
\* received (ids fresh and pairwise distinct, isCompleted false, current
\* timestamp, title/assignee/priority/description copied), followed by the
\* previously existing tasks in their previous order.
C9_AddBatch ==
    [][\A outcome \in ParseOutcomes :
          (SmartAddDone(outcome) /\ outcome.k = "result" /\ outcome.tasks # <<>>) =>
            LET n == Len(outcome.tasks) IN
            /\ Len(tasks') = n + Len(tasks)
            /\ \A i \in 1..Len(tasks) : tasks'[n + i] = tasks[i]
            /\ \A i \in 1..n :
                  /\ tasks'[i].title = outcome.tasks[i].title
                  /\ tasks'[i].assignee = outcome.tasks[i].assignee
                  /\ tasks'[i].priority = outcome.tasks[i].priority
                  /\ tasks'[i].description = outcome.tasks[i].description
                  /\ tasks'[i].isCompleted = Bool(FALSE)
                  /\ tasks'[i].createdAt = Num(now)
                  /\ Truthy(tasks'[i].id)
                  /\ tasks'[i].id \notin IdsOf(tasks)
                  /\ \A j \in 1..n : j # i => tasks'[j].id # tasks'[i].id]_vars

\* a batch of two was put in front of an existing task
C9_Witness ==
    /\ lastOp.op = "smartAdd" /\ lastOp.res = "added" /\ lastOp.was >= 1
    /\ Len(tasks) = lastOp.was + 2
    /\ tasks[1].title = Entry1.title /\ tasks[2].title = Entry2.title
    /\ tasks[1].id # tasks[2].id

\* the positions of before that delete(taskId) keeps, in order
Kept(before, taskId) == {i \in 1..Len(before) : before[i].id # taskId}
KthKept(before, taskId, k) ==
    CHOOSE i \in Kept(before, taskId) :
        Cardinality({j \in Kept(before, taskId) : j <= i}) = k

\* C10: delete(id) removes the task with the matching id and keeps every
\* other task unchanged and in the same relative order; with no matching
\* task the collection is unchanged.
C10_Delete ==
    [][\A taskId \in ArgIds :
          DeleteTask(taskId) =>
            /\ Len(tasks') = Cardinality(Kept(tasks, taskId))
            /\ \A k \in 1..Len(tasks') : tasks'[k] = tasks[KthKept(tasks, taskId, k)]
            /\ (taskId \notin IdsOf(tasks)) => tasks' = tasks]_vars

\* a task was deleted from between or beside others that stayed
C10_Witness ==
    /\ lastOp.op = "delete" /\ lastOp.res = "hit"
    /\ lastOp.was >= 2 /\ Len(tasks) = lastOp.was - 1

\* a delete whose id matched nothing
C10_MissWitness ==
    /\ lastOp.op = "delete" /\ lastOp.res = "miss"
    /\ tasks # <<>>

(***************************************************************************)
(* Import and export, under SpecSync.                                      *)
(***************************************************************************)
AllCodes == ImportCodes \cup {GetExportCode(tasks)}

\* the four stages named for a failing import, each on its own layer
Base64Fails(code) == Atob(TrimCode(code)) = Thrown
UnescapeFails(code) ==
    ~Base64Fails(code) /\ DecodeURIComponent(Atob(TrimCode(code))) = Thrown
ParseFails(code) ==
    /\ ~Base64Fails(code) /\ ~UnescapeFails(code)
    /\ JSONParse(DecodeURIComponent(Atob(TrimCode(code)))) = Thrown
NotAList(code) ==
    /\ ~Base64Fails(code) /\ ~UnescapeFails(code) /\ ~ParseFails(code)
    /\ JSONParse(DecodeURIComponent(Atob(TrimCode(code)))).ty # "arr"
DecodeFails(code) ==
    Base64Fails(code) \/ UnescapeFails(code) \/ ParseFails(code) \/ NotAList(code)

\* C2: an import whose code fails at any stage (base64, percent-unescape,
\* JSON parse, top-level value not an array) leaves the collection exactly
\* as it was.
C2_FailedImportUntouched ==
    [][\A code \in AllCodes :
          (HandleImport(code) /\ DecodeFails(code)) =>
            (tasks' = tasks /\ lastOp'.res \notin {"ok"})]_vars

\* a rejected code met a non-empty collection
C2_Witness ==
    /\ lastOp.op = "import"
    /\ lastOp.res \in {"atob", "uri", "json", "notList"}
    /\ lastOp.was > 0 /\ Len(tasks) = lastOp.was

\* a Task as types.ts declares it
ValidTask(t) ==
    /\ t.ty = "obj"
    /\ t.id.ty = "str" /\ t.id.s # <<>>
    /\ t.title.ty = "str" /\ t.title.s # <<>>
    /\ t.description.ty \in {"str", "undefined"}
    /\ \E i \in 1..Len(SISTERS) : t.assignee = SISTERS[i]
    /\ t.priority \in {PriorityLOW, PriorityMEDIUM, PriorityHIGH}
    /\ t.isCompleted.ty = "bool"
    /\ t.createdAt.ty = "num"
ValidCollection(ts) == \A i \in 1..Len(ts) : ValidTask(ts[i])

\* C4: importing the code another store's getExportCode produced for a valid
\* collection succeeds and leaves exactly that collection (ids, fields,
\* order), whatever the importing store held before.
C4_RoundTrip ==
    [][\A peer \in PeerCollections \cup {tasks} :
          (ValidCollection(peer) /\ HandleImport(GetExportCode(peer))) =>
            (tasks' = peer /\ lastOp'.res = "ok")]_vars

\* a peer's two tasks replaced what the store held
C4_Witness ==
    /\ lastOp.op = "import" /\ lastOp.res = "ok" /\ lastOp.was > 0
    /\ tasks = <<TaskB, TaskA>>

\* C5: no two tasks of the collection carry the same id.
C5_UniqueIds ==
    \A i, j \in 1..Len(tasks) : i # j => tasks[i].id # tasks[j].id

(***************************************************************************)
(* The persistence scheduler, under SpecPersist.                           *)
(***************************************************************************)
\* C1: changes that follow one another within the 500 ms window cancel the
\* pending write each time: no setItem call is made until 500 ms have
\* passed since the last change, exactly one is made then, and what it
\* writes (when it does not raise) is the collection as the last change
\* left it.
C1_DebounceCoalesces ==
    /\ writesSince <= 1
    /\ writesSince = 1 => now - lastChangeAt >= DEBOUNCE_MS
    /\ now - lastChangeAt > DEBOUNCE_MS => writesSince = 1
    /\ lastOp.op = "saveTasks" => writesSince = 1
    /\ lastOp = Op("saveTasks", "written") => storage = JSONStringify(Arr(tasks))
    /\ Cardinality({i \in 1..Len(timers) : timers[i].kind = "save"})
         = (IF writesSince = 0 THEN 1 ELSE 0)

\* a burst of changes has just been written once
C1_Witness ==
    /\ burstLen >= MaxBurst
    /\ lastOp = Op("saveTasks", "written")
    /\ writesSince = 1
    /\ now - lastChangeAt = DEBOUNCE_MS
    /\ storage = JSONStringify(Arr(tasks))

\* C3: a write that raises leaves the status at error, and the status then
\* stays error until a later write succeeds; no other step, and no timer
\* left from an earlier successful write, takes it out of error.
C3_ErrorUntilSuccess ==
    [][/\ (lastOp'.op = "saveTasks" /\ lastOp'.res = "raised") => saveStatus' = "error"
       /\ (saveStatus = "error" /\ saveStatus' # "error") =>
             (lastOp'.op = "saveTasks" /\ lastOp'.res = "written"
              /\ saveStatus' = "saving")]_vars

\* a write succeeded, a later one raised, and the error outlived the window
C3_Witness ==
    /\ saveStatus = "error"
    /\ lastOp.op = "advance"
    /\ now - lastChangeAt > DEBOUNCE_MS
    /\ storage = JSONStringify(Arr(<<>>))
    /\ timers = <<>>

(***************************************************************************)
(* The list view, under SpecView.                                          *)
(***************************************************************************)
\* the k-th smallest member of a set of positions
KthOf(S, k) == CHOOSE i \in S : Cardinality({j \in S : j <= i}) = k

\* the positions of ts a filter shows
Shown(ts, f) ==
    IF f = FilterAll THEN 1..Len(ts) ELSE {i \in 1..Len(ts) : ts[i].assignee = f}

\* C11: filtering by a participant name shows exactly the tasks whose
\* assignee equals that name, in collection order; filtering by "All" shows
\* the whole collection unchanged, tasks with an assignee outside the
\* participant set included; changing the filter changes neither the
\* collection nor the pending write.
C11_Filter ==
    /\ [](LET shown == FilteredTasks(tasks, filterUser) IN
          /\ Len(shown) = Cardinality(Shown(tasks, filterUser))
          /\ \A k \in 1..Len(shown) : shown[k] = tasks[KthOf(Shown(tasks, filterUser), k)]
          /\ filterUser = FilterAll => shown = tasks)
    /\ [][\A f \in FilterChoices :
            SetFilterUser(f) =>
              /\ tasks' = tasks /\ timers' = timers /\ storage' = storage
              /\ saveStatus' = saveStatus /\ writesSince' = writesSince]_vars

\* the filter was set to a sister over a collection holding one task of hers
\* behind a record without an assignee
C11_Witness ==
    /\ lastOp.op = "setFilter" /\ filterUser = Anna
    /\ Len(tasks) = 2 /\ tasks[1].assignee = Undefined
    /\ FilteredTasks(tasks, filterUser) = <<tasks[2]>>

(***************************************************************************)
(* Load and import of odd records, under SpecEntry.                        *)
(***************************************************************************)
EntryCodesNow == EntryCodes \cup {GetExportCode(tasks)}

\* the stored text parses to an array
StoredList == JSONParse(storage) # Thrown /\ JSONParse(storage).ty = "arr"
\* the code decodes to an array
CodesList(code) ==
    DecodeCode(code).stage = "parsed" /\ DecodeCode(code).doc.ty = "arr"

\* C12: when the parsed persisted value, or the decoded import payload, is
\* an array, the load, or the import, succeeds and yields one record per
\* element, whatever the elements are: objects with missing fields, null,
\* numbers, strings.
C12_NormalizationTotal ==
    /\ []((lastOp.op = "mount" /\ StoredList) =>
            Len(tasks) = Len(JSONParse(storage).items))
    /\ [][\A code \in EntryCodesNow :
            (HandleImport(code) /\ CodesList(code)) =>
              /\ lastOp'.res = "ok"
              /\ Len(tasks') = Len(DecodeCode(code).doc.items)]_vars

\* the same for arrays without a null element: numbers and objects with
\* missing fields do go through
NoNull(items) == \A i \in 1..Len(items) : ~ReadThrows(items[i])
C12_TotalWithoutNull ==
    /\ []((lastOp.op = "mount" /\ StoredList /\ NoNull(JSONParse(storage).items)) =>
            Len(tasks) = Len(JSONParse(storage).items))
    /\ [][\A code \in EntryCodesNow :
            (/\ HandleImport(code) /\ CodesList(code)
             /\ NoNull(DecodeCode(code).doc.items)) =>
              /\ lastOp'.res = "ok"
              /\ Len(tasks') = Len(DecodeCode(code).doc.items)]_vars

\* C13: in every reachable state, so after every load and every import,
\* each task has a non-falsy id, has a createdAt, and has a strict boolean
\* isCompleted.
C13_Normalized ==
    \A i \in 1..Len(tasks) :
        /\ Truthy(tasks[i].id)
        /\ tasks[i].createdAt # Undefined
        /\ tasks[i].isCompleted.ty = "bool"

\* C14: normalizing what the same normalization produced changes nothing:
\* a reload over the written output of a load, and an import of the export
\* of an import's output, return the same collection, no id regenerated,
\* no createdAt reassigned, no isCompleted changed, order and length kept.
C14_Idempotent ==
    [][/\ (Reload /\ lastOp.src = "load" /\ storage = JSONStringify(Arr(tasks))) =>
             (tasks' = tasks /\ idCounter' = 0)
       /\ (lastOp.src = "import" /\ HandleImport(GetExportCode(tasks))) =>
             (tasks' = tasks /\ idCounter' = idCounter /\ lastOp'.res = "ok")]_vars

\* a reload over the written output of the first load: the record that had
\* no id and no createdAt keeps what the first load gave it
C14_Witness ==
    /\ lastOp = MountOp /\ now > StartTime
    /\ storage = JSONStringify(Arr(tasks))
    /\ Len(tasks) = 2 /\ tasks[1].title = NoIdRec.title
    /\ Truthy(tasks[1].id) /\ tasks[1].createdAt = Num(StartTime)
    /\ idCounter = 0

\* C15: at startup an absent key gives the empty collection, an unparsable
\* text gives the empty collection, and a text that parses to an array
\* gives its normalization, of the same length and in the same order.
C15_LoadNeverFails ==
    [](lastOp.op = "mount" =>
         IF storage = NoItem \/ JSONParse(storage) = Thrown THEN tasks = <<>>
         ELSE StoredList =>
                /\ Len(tasks) = Len(JSONParse(storage).items)
                /\ \A i \in 1..Len(tasks) :
                      \A f \in OtherFields \ {"ty", "id", "createdAt"} :
                         tasks[i][f] = Get(JSONParse(storage).items[i], f))

(***************************************************************************)
(* What the store's operations leave alone, under SpecAsync.               *)
(***************************************************************************)
\* two records agree on every field but isCompleted
SameButCompleted(a, b) == \A f \in OtherFields : a[f] = b[f]

\* C16: every task that is in the collection before and after an addManual,
\* an addFromParsedBatch, a toggle or a delete has the same id, title,
\* description, assignee, priority and createdAt before and after; only
\* isCompleted is ever changed.
C16_OnlyIsCompletedMutated ==
    [][/\ lastOp'.op \in {"manualAdd", "smartAdd"} =>
             \A i \in 1..Len(tasks) :
                /\ SameButCompleted(tasks[i], tasks'[i + Len(tasks') - Len(tasks)])
                /\ tasks'[i + Len(tasks') - Len(tasks)].isCompleted = tasks[i].isCompleted
       /\ lastOp'.op = "toggle" =>
             /\ Len(tasks') = Len(tasks)
             /\ \A i \in 1..Len(tasks) : SameButCompleted(tasks[i], tasks'[i])
       /\ lastOp'.op = "delete" =>
             \E taskId \in ArgIds :
                /\ Len(tasks') = Cardinality(Kept(tasks, taskId))
                /\ \A k \in 1..Len(tasks') :
                      tasks'[k] = tasks[KthOf(Kept(tasks, taskId), k)]]_vars

\* the second of two tasks, one with a description, was toggled
C16_Witness ==
    /\ lastOp.op = "toggle" /\ lastOp.res = "hit"
    /\ Len(tasks) = 2 /\ tasks[1].id # tasks[2].id
    /\ tasks[2] = [TaskB EXCEPT !.isCompleted = Bool(FALSE)]

\* C19: when a parse call completes with a non-empty batch, the batch is
\* put in front of the collection as it is at that moment, so every effect
\* of the handlers that ran while the call was awaited (addManual, toggle,
\* delete, import) is retained; when it returns null, no tasks or an empty
\* list, or rejects, the collection is not changed and no write is scheduled.
C19_ParseKeepsInterleaved ==
    [][\A outcome \in ParseOutcomes :
          SmartAddDone(outcome) =>
            IF outcome.k = "result" /\ outcome.tasks # <<>>
            THEN /\ Len(tasks') = Len(outcome.tasks) + Len(tasks)
                 /\ \A i \in 1..Len(tasks) : tasks'[Len(outcome.tasks) + i] = tasks[i]
                 /\ \A i \in 1..Len(outcome.tasks) :
                       tasks'[i].title = outcome.tasks[i].title
            ELSE tasks' = tasks /\ timers' = timers]_vars

\* a batch of one arrived after a task was imported while the call was
\* awaited: both are there, the batch first
C19_Witness ==
    /\ lastOp.op = "smartAdd" /\ lastOp.res = "added" /\ lastOp.fl = 1
    /\ Len(tasks) = 2 /\ tasks[1].title = Entry1.title /\ tasks[2] = TaskB

(***************************************************************************)
(* Writes to storage, under SpecPersist.                                   *)
(***************************************************************************)
SavePending == \E i \in 1..Len(timers) : timers[i].kind = "save"

\* C17: every value written to the storage key is a collection the store
\* held, whole, and writes follow the order of those states: what a write
\* stores is the collection the store holds at that moment, so no older
\* state is written after a newer one; nothing else changes the key.
C17_WritesFollowHistory ==
    [][/\ (lastOp'.op = "saveTasks" /\ lastOp'.res = "written") =>
             (storage' = JSONStringify(Arr(tasks)) /\ tasks' = tasks)
       /\ storage' # storage =>
             (lastOp'.op = "saveTasks" /\ lastOp'.res = "written")]_vars

\* a second write, of a collection changed after the write at startup
C17_Witness ==
    /\ lastOp.op = "saveTasks" /\ lastOp.res = "written"
    /\ lastChangeAt > StartTime + DEBOUNCE_MS
    /\ Len(tasks) = 1
    /\ storage = JSONStringify(Arr(tasks))

\* C18: after a write attempt raised, no further attempt is made while the
\* collection does not change: no save timer is pending then, and every
\* attempt is the first since the last change and comes a full window
\* after it.
C18_NoRetry ==
    /\ []((saveStatus = "error" /\ writesSince >= 1) => ~SavePending)
    /\ [][lastOp'.op = "saveTasks" =>
            (writesSince = 0 /\ now - lastChangeAt >= DEBOUNCE_MS)]_vars

\* the write of a change raised and two windows have passed since
C18_Witness ==
    /\ saveStatus = "error" /\ writesSince = 1 /\ ~SavePending
    /\ lastChangeAt > StartTime
    /\ now - lastChangeAt >= 2 * DEBOUNCE_MS

\* C20: one window after load, with no change made, the loaded collection
\* has been handed to setItem, so an unparsable item is overwritten with
\* the empty collection; a toggle or delete whose id matches no task leaves
\* the contents as they are, restarts the window and causes a write too.
C20_WriteWithoutMutation ==
    /\ []((lastOp.src = "load" /\ now > StartTime + DEBOUNCE_MS) =>
            /\ writesSince = 1
            /\ saveStatus # "error" => storage = JSONStringify(Arr(tasks)))
    /\ []((lastOp.op \in {"toggle", "delete"} /\ lastOp.res = "miss") =>
            /\ writesSince = 0
            /\ timers # <<>>
            /\ timers[Len(timers)] = SaveTimer(now + DEBOUNCE_MS, tasks))
    /\ [](now - lastChangeAt > DEBOUNCE_MS => writesSince = 1)
    /\ [][\A taskId \in ArgIds :
            ((ToggleTask(taskId) \/ DeleteTask(taskId)) /\ ~HasId(tasks, taskId)) =>
              (tasks' = tasks /\ lastChangeAt' = now)]_vars

\* the empty collection was written over an unparsable item one window
\* after startup, no handler having run
C20_Witness ==
    /\ lastOp.op = "saveTasks" /\ lastOp.res = "written" /\ lastOp.src = "load"
    /\ now = StartTime + DEBOUNCE_MS
    /\ tasks = <<>> /\ storage = JSONStringify(Arr(<<>>))

====
